---- MODULE Spec2Model ----
(***************************************************************************)
(* Model of the schema-alignment merge engine (src/src/core/merger.py,     *)
(* TableMerger.merge_and_report), of the health scanner                    *)
(* (src/src/core/scanner.py, DataHealthScanner) and of the upload cache    *)
(* shared by the request handlers of src/main.py, and of those handlers.   *)
(*                                                                         *)
(* A DataFrame is a record [columns, rows]: columns is the sequence of     *)
(* column labels, rows is a sequence of records [src, cells] where cells   *)
(* is positional (cells[j] belongs to columns[j]) and src is the 0-based   *)
(* index of the input file the row was read from (history information,     *)
(* never read by the modelled code).                                       *)
(*                                                                         *)
(* A cell is a record [s, f, r].  NaN is the absent marker; a key string   *)
(* is [s |-> text, f |-> 0, r |-> 0]; a data string read from row r of     *)
(* file f under column c is [s |-> c, f |-> f + 1, r |-> r], a text that   *)
(* occurs in no other source cell.                                         *)
(*                                                                         *)
(* File indices, loop indices and row indices are 0-based as in the        *)
(* source; sequences are 1-based, hence the "+ 1" in the accesses.         *)
(***************************************************************************)
EXTENDS Integers, Sequences, FiniteSets, Bags, TLC

\* --------------------------------------------------------------- bounds
MaxFiles == 3

\* ------------------------------------------------------------ constants
\* MATCH_RATE_WARN_THRESHOLD = 0.8, as the fraction WarnNum / WarnDen
WarnNum == 4
WarnDen == 5
\* round(rate, 4): the recorded match_rate is kept in ten-thousandths
RateScale == 10000

\* ------------------------------------------------------ sequence helpers
Range(s) == {s[j] : j \in 1..Len(s)}

\* position of the first occurrence of x in s (0 when absent)
IndexOf(s, x) ==
    IF x \in Range(s) THEN CHOOSE j \in 1..Len(s) : s[j] = x /\ \A k \in 1..(j - 1) : s[k] # x
    ELSE 0

\* [c for c in s if c in S]
Keep(s, S) == SelectSeq(s, LAMBDA c : c \in S)

\* [c for c in s if c not in S]
Drop(s, S) == SelectSeq(s, LAMBDA c : c \notin S)

RECURSIVE SumSeq(_)
SumSeq(s) == IF s = <<>> THEN 0 ELSE s[1] + SumSeq(Tail(s))

\* ------------------------------------------------------------- columns
\* The column labels of the model, listed in Python's string order.
SortedColumns == <<"A", "B", "K">>

\* sorted(S) for a set of column labels
Sorted(S) == Keep(SortedColumns, S)

\* Optional[List[str]] = None
NoneCols == <<"None">>

\* ---------------------------------------------------------------- cells
NaN == [s |-> "NaN", f |-> 0, r |-> 0]
Str(x) == [s |-> x, f |-> 0, r |-> 0]
Val(f, r, c) == [s |-> c, f |-> f + 1, r |-> r]

\* str.strip() on the strings of the model: " k1" carries leading blanks
StripStr(x) == IF x = " k1" THEN "k1" ELSE x

\* .astype(str).str.strip() on one cell: NaN becomes the string "nan"
StripCell(c) == IF c = NaN THEN Str("nan") ELSE [c EXCEPT !.s = StripStr(c.s)]

\* ----------------------------------------------------------- DataFrames
EmptyDF == [columns |-> <<>>, rows |-> <<>>]

\* df.reindex(columns=cols): labels of cols found in df keep their cells,
\* the others are filled with NaN; labels of df not in cols are dropped.
Reindex(df, cols) ==
    [columns |-> cols,
     rows |-> [n \in 1..Len(df.rows) |->
        [src |-> df.rows[n].src,
         cells |-> [j \in 1..Len(cols) |->
            IF cols[j] \in Range(df.columns)
            THEN df.rows[n].cells[IndexOf(df.columns, cols[j])]
            ELSE NaN]]]]

\* the column labels of pd.concat(dfs): union in order of first appearance
RECURSIVE ConcatColumns(_)
ConcatColumns(dfs) ==
    IF dfs = <<>> THEN <<>>
    ELSE LET rest == ConcatColumns(SubSeq(dfs, 1, Len(dfs) - 1))
             last == dfs[Len(dfs)].columns
         IN  rest \o Drop(last, Range(rest))

RECURSIVE ConcatRows(_, _)
ConcatRows(dfs, cols) ==
    IF dfs = <<>> THEN <<>>
    ELSE Reindex(dfs[1], cols).rows \o ConcatRows(Tail(dfs), cols)

\* pd.concat(dfs, axis=0, ignore_index=True)
Concat(dfs) ==
    LET cols == ConcatColumns(dfs)
    IN  [columns |-> cols, rows |-> ConcatRows(dfs, cols)]

\* the tuple of the cells of one row at the labels of cols
KeyOf(df, n, cols) == [j \in 1..Len(cols) |-> df.rows[n].cells[IndexOf(df.columns, cols[j])]]

\* df.drop_duplicates(subset=cols, keep="first")
DropDuplicates(df, cols) ==
    LET first(n) == \A m \in 1..(n - 1) : KeyOf(df, m, cols) # KeyOf(df, n, cols)
        RECURSIVE pick(_)
        pick(n) == IF n > Len(df.rows) THEN <<>>
                   ELSE (IF first(n) THEN <<df.rows[n]>> ELSE <<>>) \o pick(n + 1)
    IN  [columns |-> df.columns, rows |-> pick(1)]

\* left.merge(right, on=on, how="left") where right has unique keys and
\* shares no label with left except those of on: every left row is kept,
\* in order, extended by the other columns of the right row with the same
\* key (NaN keys match NaN keys), or by NaN when there is none.
MergeLeft(left, right, on) ==
    LET others == Drop(right.columns, Range(on))
        hit(n) == {m \in 1..Len(right.rows) : KeyOf(right, m, on) = KeyOf(left, n, on)}
        extra(n) == IF hit(n) = {} THEN [j \in 1..Len(others) |-> NaN]
                    ELSE KeyOf(right, CHOOSE m \in hit(n) : TRUE, others)
    IN  [columns |-> left.columns \o others,
         rows |-> [n \in 1..Len(left.rows) |->
            [src |-> left.rows[n].src, cells |-> left.rows[n].cells \o extra(n)]]]

\* ---------------------------------------------------------------- files
\* The shapes a decoded input file takes in the model.  A file is
\* [readable, header, rows]; rows lists, per data row, the text of the K
\* cell (when the header has K) and whether the other cells are blank.
Headers == { <<"K", "A">>, <<"A", "K", "B">>, <<"A">>, <<"B">> }

\* a first file whose header repeats a label
DupHeader == <<"A", "A">>

RowLists ==
    { <<>>,
      << [key |-> "k1", blank |-> FALSE] >>,
      << [key |-> "k2", blank |-> TRUE] >>,
      << [key |-> "k1", blank |-> FALSE], [key |-> "k2", blank |-> TRUE] >>,
      << [key |-> " k1", blank |-> FALSE], [key |-> "k1", blank |-> FALSE] >> }

Unreadable == [readable |-> FALSE, header |-> <<>>, rows |-> <<>>]

Files ==
    {Unreadable} \cup [readable : {TRUE}, header : Headers, rows : RowLists]

FirstFiles ==
    Files \cup {[readable |-> TRUE, header |-> DupHeader,
                 rows |-> << [key |-> "k1", blank |-> FALSE] >>]}

\* _read_table(fp) for a readable file with 0-based index f
ReadTable(file, f) ==
    [columns |-> file.header,
     rows |-> [n \in 1..Len(file.rows) |->
        [src |-> f,
         cells |-> [j \in 1..Len(file.header) |->
            IF file.header[j] = "K" THEN Str(file.rows[n].key)
            ELSE IF file.rows[n].blank THEN NaN
            ELSE Val(f, n - 1, file.header[j])]]]]

\* _strip_primary_key_columns(df, key_columns)
StripPrimaryKeyColumns(df, key_columns) ==
    [columns |-> df.columns,
     rows |-> [n \in 1..Len(df.rows) |->
        [src |-> df.rows[n].src,
         cells |-> [j \in 1..Len(df.columns) |->
            IF df.columns[j] \in Range(key_columns)
            THEN StripCell(df.rows[n].cells[j])
            ELSE df.rows[n].cells[j]]]]]


\* ------------------------------------------------------------- the report
NoRate == -1

\* as NewEntry, but named after the reference file, as reference_file is
NewEntryOfReference(f) ==
    [file |-> 0, row_count |-> 0, missing_columns |-> <<>>, extra_columns |-> <<>>,
     status |-> "ok", match_rate |-> NoRate]

\* entry = {"file", "row_count", "missing_columns", "extra_columns",
\*          "status", "match_rate"}
NewEntry(f) ==
    [file |-> f, row_count |-> 0, missing_columns |-> <<>>, extra_columns |-> <<>>,
     status |-> "ok", match_rate |-> NoRate]

\* report = {"reference_file", "reference_columns", "tables",
\*           "merged_row_count", "fatal_mismatch_count", "merge_warning"};
\* error is "None" while the report carries no top-level error field
NewReport ==
    [reference_columns |-> <<>>, tables |-> <<>>, merged_row_count |-> 0,
     fatal_mismatch_count |-> 0, merge_warning |-> "None", error |-> "None"]

\* self.schema_report = {} after __init__
UnsetReport == [NewReport EXCEPT !.error = "unset"]

\* {"error": "file_paths is empty", "merged_row_count": 0}
EmptyInputReport == [NewReport EXCEPT !.error = "empty"]

HasDuplicates(s) == Len(s) # Cardinality(Range(s))

\* the missing columns listed in sorted order instead of baseline order
MissingColumnsSorted(baseline, actual) == Sorted(Range(baseline) \ Range(actual))

\* lines 434, 440: [c for c in cols_to_use if c not in actual_set]
MissingColumns(baseline, actual) == Drop(baseline, Range(actual))

\* lines 435, 441: [c for c in actual_columns if c not in baseline_set]
ExtraColumns(baseline, actual) == Drop(actual, Range(baseline))

\* the test taken on the extra columns instead of the intersection
IsFatalNoExtra(baseline, actual) == Range(actual) \ Range(baseline) = {}

\* lines 442-444: len(actual_set & baseline_set) == 0
IsFatal(baseline, actual) == Range(actual) \cap Range(baseline) = {}

\* ------------------------------------------------------------------ state
VARIABLES
    pc,                   \* position inside merge_and_report and its caller
    engine,               \* which TableMerger runs: "core" (src/core/merger.py)
                          \* or "script" (scripts/align_merge_engine.py)
    file_paths,           \* argument: the input files, in order
    baseline_columns,     \* argument: explicit baseline, or NoneCols
    template_incremental, \* argument: incremental-union flag
    primary_key_columns,  \* argument: primary key columns (<<>> when absent)
    report,               \* local: the report under construction
    merged_dfs,           \* local: the tables kept for the merge
    merged_src,           \* history: the input index of each kept table
    fatal_count,          \* local
    cols_to_use,          \* local: the baseline, or NoneCols
    i,                    \* local: index of the next file of the main loop
    left,                 \* local: running result of the key join
    idx,                  \* local: index into merged_dfs of the next join
    rates,                \* history: one record per computed match rate
    warn_writes,          \* history: number of writes of merge_warning
    ret,                  \* the returned pair (merged table, report)
    schema_report,        \* self.schema_report
    errors,               \* the defect records of the scan of ret
    scanner,              \* the DataHealthScanner object (its five lists)
    scanner_args,         \* history: the arguments the scanner was built with
    scan_df,              \* the table handed to DataHealthScanner.scan
    manifests,            \* the health manifests returned so far, in order
    set_order,            \* the order in which list(set(...)) enumerates the outlier
                          \* columns in the running interpreter process
    scan_raised,          \* history: a call of scan ended with an exception
    upload_cache,         \* _upload_cache: the cache keys, in insertion order
    requests,             \* the HTTP requests in flight or answered
    keys_issued,          \* number of cache keys handed out by uuid4
    claims,               \* history: bag of the keys whose entry a merge-and-scan got
    misses,               \* history: the keys a merge-and-scan found no entry for
    request,              \* the merge-and-scan request being handled
    response,             \* the answer to that request
    last_merge_fingerprint, \* _last_merge_fingerprint of src/main.py
    polled                \* what check-status returned after the last answer

vars == <<pc, engine, file_paths, baseline_columns, template_incremental, primary_key_columns,
          report, merged_dfs, merged_src, fatal_count, cols_to_use, i, left, idx,
          rates, warn_writes, ret, schema_report, errors,
          scanner, scanner_args, scan_df, manifests, set_order, scan_raised,
          upload_cache, requests, keys_issued,
          claims, misses, request, response, last_merge_fingerprint, polled>>

\* the state of the scanner object and of the upload cache
scan_vars == <<scanner, scanner_args, scan_df, manifests, set_order, scan_raised>>
cache_vars == <<upload_cache, requests, keys_issued, claims, misses>>

\* the state of the merge-and-scan handlers and of check-status
handler_vars == <<request, response, last_merge_fingerprint, polled>>

\* the state of one merge_and_report call and of its caller
merge_vars == <<pc, engine, file_paths, baseline_columns, template_incremental,
                primary_key_columns, report, merged_dfs, merged_src, fatal_count, cols_to_use,
                i, left, idx, rates, warn_writes, ret, schema_report, errors>>

args == <<engine, file_paths, baseline_columns, template_incremental, primary_key_columns>>

\* key_cols = list(primary_key_columns) if primary_key_columns else []
key_cols == primary_key_columns

NoReturn == [df |-> EmptyDF, report |-> UnsetReport]

\* TableMerger.__init__
MergerInit ==
    /\ pc = "idle"
    /\ engine = "core"
    /\ file_paths = <<>>
    /\ baseline_columns = NoneCols
    /\ template_incremental = FALSE
    /\ primary_key_columns = <<>>
    /\ report = NewReport
    /\ merged_dfs = <<>>
    /\ merged_src = <<>>
    /\ fatal_count = 0
    /\ cols_to_use = NoneCols
    /\ i = 0
    /\ left = EmptyDF
    /\ idx = 0
    /\ rates = <<>>
    /\ warn_writes = 0
    /\ ret = NoReturn
    /\ schema_report = UnsetReport
    /\ errors = <<>>

FilePathsArgs ==
    {<<>>} \cup
    UNION { {fl \in [1..n -> FirstFiles] : \A m \in 2..n : fl[m] \in Files} : n \in 1..MaxFiles }

BaselineArgs == {NoneCols, <<"A", "K">>}

Engines == {"core", "script"}

PrimaryKeyArgs == {<<>>, <<"K">>}

\* as IncrementalColumns, but the discovered columns are listed in the order
\* the files bring them instead of sorted order
IncrementalColumnsUnsorted(fl, base) ==
    LET found == ConcatColumns([n \in 1..Len(fl) |->
                    [columns |-> IF fl[n].readable THEN fl[n].header ELSE <<>>, rows |-> <<>>]])
        baseline_list ==
            IF base # NoneCols THEN base
            ELSE IF fl[1].readable THEN fl[1].header
            ELSE <<>>
    IN  baseline_list \o Drop(found, Range(baseline_list))

\* lines 374-392: the baseline of an incremental merge, from a first read
\* of every file
IncrementalColumns(fl, base) ==
    LET all_cols == UNION {Range(fl[n].header) : n \in {m \in 1..Len(fl) : fl[m].readable}}
        baseline_list ==
            IF base # NoneCols THEN base
            ELSE IF fl[1].readable THEN fl[1].header
            ELSE <<>>
    IN  baseline_list \o Sorted((all_cols \cup Range(baseline_list)) \ Range(baseline_list))


\* ------------------------------------------------------- merge_and_report
\* lines 353-392: empty input, initial report, baseline of the call.  The
\* merger of scripts/align_merge_engine.py (lines 63-80) takes the file list
\* only and starts from baseline_columns = [].
Call ==
    /\ pc = "idle"
    /\ \E eng \in Engines, fl \in FilePathsArgs, base \in BaselineArgs, inc \in BOOLEAN,
          keys \in PrimaryKeyArgs :
        /\ eng = "script" => (base = NoneCols /\ ~inc /\ keys = <<>>)
        /\ engine' = eng
        /\ file_paths' = fl
        /\ baseline_columns' = base
        /\ template_incremental' = inc
        /\ primary_key_columns' = keys
        /\ IF fl = <<>>
           THEN /\ schema_report' = EmptyInputReport
                /\ ret' = [df |-> EmptyDF, report |-> EmptyInputReport]
                /\ pc' = "returned"
                /\ UNCHANGED <<report, cols_to_use>>
           ELSE /\ report' = NewReport
                /\ cols_to_use' = IF eng = "script" THEN <<>>
                                  ELSE IF inc THEN IncrementalColumns(fl, base)
                                  ELSE base
                /\ pc' = "loop"
                /\ UNCHANGED <<schema_report, ret>>
    /\ merged_dfs' = <<>>
    /\ merged_src' = <<>>
    /\ fatal_count' = 0
    /\ i' = 0
    /\ UNCHANGED <<left, idx, rates, warn_writes, errors>>
    /\ UNCHANGED <<scan_vars, cache_vars, handler_vars>>

\* the file of the current iteration, and its table after lines 406-414
CurrentFile == file_paths[i + 1]

CurrentTable ==
    IF key_cols # <<>>
    THEN StripPrimaryKeyColumns(ReadTable(CurrentFile, i), key_cols)
    ELSE ReadTable(CurrentFile, i)

InLoop == pc = "loop" /\ i < Len(file_paths)

\* lines 407-411: the file cannot be read
ReadError ==
    /\ InLoop
    /\ ~CurrentFile.readable
    /\ report' = [report EXCEPT !.tables = Append(@, [NewEntry(i) EXCEPT !.status = "read_error"])]
    /\ i' = i + 1
    /\ UNCHANGED <<pc, args, merged_dfs, merged_src, fatal_count, cols_to_use, left, idx,
                   rates, warn_writes, ret, schema_report, errors>>
    /\ UNCHANGED <<scan_vars, cache_vars, handler_vars>>

\* lines 421-425: the first file has duplicate column names
DuplicateColumns ==
    /\ InLoop
    /\ CurrentFile.readable
    /\ i = 0
    /\ HasDuplicates(CurrentTable.columns)
    /\ report' = [report EXCEPT !.error = "duplicate", !.reference_columns = CurrentTable.columns]
    /\ ret' = [df |-> EmptyDF, report |-> report']
    /\ pc' = "returned"
    /\ UNCHANGED <<args, merged_dfs, merged_src, fatal_count, cols_to_use, i, left, idx,
                   rates, warn_writes, schema_report, errors>>
    /\ UNCHANGED <<scan_vars, cache_vars, handler_vars>>

\* lines 426-437: the first file becomes the reference entry
FirstFile ==
    /\ InLoop
    /\ CurrentFile.readable
    /\ i = 0
    /\ ~HasDuplicates(CurrentTable.columns)
    /\ LET df == CurrentTable
           actual_columns == df.columns
           use == IF cols_to_use = NoneCols \/ Len(cols_to_use) = 0
                  THEN actual_columns ELSE cols_to_use
           entry == [NewEntry(i) EXCEPT
                        !.row_count = Len(df.rows),
                        !.missing_columns = MissingColumns(use, actual_columns),
                        !.extra_columns = ExtraColumns(use, actual_columns)]
       IN  /\ cols_to_use' = use
           /\ merged_dfs' = Append(merged_dfs,
                                   IF key_cols # <<>> /\ template_incremental
                                   THEN df ELSE Reindex(df, use))
           /\ merged_src' = Append(merged_src, i)
           /\ report' = [report EXCEPT !.reference_columns = use, !.tables = Append(@, entry)]
    /\ i' = i + 1
    /\ UNCHANGED <<pc, args, fatal_count, left, idx, rates, warn_writes, ret,
                   schema_report, errors>>
    /\ UNCHANGED <<scan_vars, cache_vars, handler_vars>>

\* line 439: set(cols_to_use) with cols_to_use = None raises TypeError
NoBaseline ==
    /\ InLoop
    /\ CurrentFile.readable
    /\ i > 0
    /\ cols_to_use = NoneCols
    /\ pc' = "raised"
    /\ UNCHANGED <<args, report, merged_dfs, merged_src, fatal_count, cols_to_use, i, left,
                   idx, rates, warn_writes, ret, schema_report, errors>>
    /\ UNCHANGED <<scan_vars, cache_vars, handler_vars>>

\* lines 444-451: no column in common with the baseline
FatalMismatch ==
    /\ InLoop
    /\ CurrentFile.readable
    /\ i > 0
    /\ cols_to_use # NoneCols
    /\ IsFatal(cols_to_use, CurrentTable.columns)
    /\ report' = [report EXCEPT !.tables = Append(@,
                    [NewEntry(i) EXCEPT
                        !.row_count = Len(CurrentTable.rows),
                        !.status = "Fatal Mismatch",
                        !.missing_columns = cols_to_use,
                        !.extra_columns = CurrentTable.columns])]
    /\ fatal_count' = fatal_count + 1
    /\ i' = i + 1
    /\ UNCHANGED <<pc, args, merged_dfs, merged_src, cols_to_use, left, idx, rates,
                   warn_writes, ret, schema_report, errors>>
    /\ UNCHANGED <<scan_vars, cache_vars, handler_vars>>

\* lines 439-442, 453-458: the file is aligned on the baseline and kept
AlignFile ==
    /\ InLoop
    /\ CurrentFile.readable
    /\ i > 0
    /\ cols_to_use # NoneCols
    /\ ~IsFatal(cols_to_use, CurrentTable.columns)
    /\ LET df == CurrentTable
           actual_columns == df.columns
           entry == [NewEntry(i) EXCEPT
                        !.row_count = Len(df.rows),
                        !.missing_columns = MissingColumns(cols_to_use, actual_columns),
                        !.extra_columns = ExtraColumns(cols_to_use, actual_columns)]
       IN  /\ report' = [report EXCEPT !.tables = Append(@, entry)]
           /\ merged_dfs' = Append(merged_dfs, Reindex(df, cols_to_use))
           /\ merged_src' = Append(merged_src, i)
    /\ i' = i + 1
    /\ UNCHANGED <<pc, args, fatal_count, cols_to_use, left, idx, rates, warn_writes, ret,
                   schema_report, errors>>
    /\ UNCHANGED <<scan_vars, cache_vars, handler_vars>>

AfterLoop == pc = "loop" /\ i = Len(file_paths)

\* line 467
key_cols_use == Keep(key_cols, Range(merged_dfs[1].columns))

\* lines 460-464: nothing was kept
ReturnEmpty ==
    /\ AfterLoop
    /\ merged_dfs = <<>>
    /\ report' = [report EXCEPT !.fatal_mismatch_count = fatal_count, !.merged_row_count = 0]
    /\ schema_report' = report'
    /\ ret' = [df |-> EmptyDF, report |-> report']
    /\ pc' = "returned"
    /\ UNCHANGED <<args, merged_dfs, merged_src, fatal_count, cols_to_use, i, left, idx,
                   rates, warn_writes, errors>>
    /\ UNCHANGED <<scan_vars, cache_vars, handler_vars>>

\* lines 460, 466, 495-502: vertical concatenation
Stack ==
    /\ AfterLoop
    /\ merged_dfs # <<>>
    /\ key_cols = <<>> \/ key_cols_use = <<>>
    /\ LET result == Concat(merged_dfs)
       IN  /\ report' = [report EXCEPT !.fatal_mismatch_count = fatal_count,
                                       !.merged_row_count = Len(result.rows)]
           /\ ret' = [df |-> result, report |-> report']
    /\ schema_report' = report'
    /\ pc' = "returned"
    /\ UNCHANGED <<args, merged_dfs, merged_src, fatal_count, cols_to_use, i, left, idx,
                   rates, warn_writes, errors>>
    /\ UNCHANGED <<scan_vars, cache_vars, handler_vars>>

\* lines 460, 466-469: the key join starts from the first kept table
StartJoin ==
    /\ AfterLoop
    /\ merged_dfs # <<>>
    /\ key_cols # <<>>
    /\ key_cols_use # <<>>
    /\ report' = [report EXCEPT !.fatal_mismatch_count = fatal_count]
    /\ left' = merged_dfs[1]
    /\ idx' = 1
    /\ pc' = "join"
    /\ UNCHANGED <<args, merged_dfs, merged_src, fatal_count, cols_to_use, i, rates,
                   warn_writes, ret, schema_report, errors>>
    /\ UNCHANGED <<scan_vars, cache_vars, handler_vars>>


\* ----------------------------------------------------------- the key join
InJoin == pc = "join" /\ idx < Len(merged_dfs)

\* line 471
right == merged_dfs[idx + 1]

\* line 472
merge_on == SelectSeq(key_cols_use,
                      LAMBDA c : c \in Range(left.columns) /\ c \in Range(right.columns))

\* line 475
right_only == Drop(right.columns, Range(left.columns))

\* lines 476-480
right_merge == DropDuplicates(Reindex(right, merge_on \o right_only), merge_on)

\* A key column that reindex created holds only NaN and has dtype float64;
\* a key column read from a file was converted by astype(str) and holds
\* only strings (dtype object).
IsFloatColumn(df, c) == \A n \in 1..Len(df.rows) : KeyOf(df, n, <<c>>) = <<NaN>>

\* pandas refuses to merge a string key with a float64 key when both sides
\* have rows (ValueError: "You are trying to merge on object and float64
\* columns"); builds without that check go on and match nothing.
KeyDtypesDiffer ==
    /\ Len(left.rows) > 0
    /\ Len(right_merge.rows) > 0
    /\ \E c \in Range(merge_on) : IsFloatColumn(left, c) # IsFloatColumn(right_merge, c)

\* set(map(tuple, df[on].values.tolist())): NaN is equal to no float, so
\* a tuple holding NaN is never in the intersection of two such sets
KeyTuples(df, on) ==
    {k \in {KeyOf(df, n, on) : n \in 1..Len(df.rows)} : \A j \in 1..Len(on) : k[j] # NaN}

\* lines 484-487
total_left == Len(merged_dfs[1].rows)
matched == Cardinality(KeyTuples(merged_dfs[1], merge_on) \cap KeyTuples(right, merge_on))

\* round(rate, 4) with rate = matched / total_left if total_left else 1.0
RoundedRate(m, t) ==
    IF t = 0 THEN RateScale ELSE (2 * RateScale * m + t) \div (2 * t)

\* rate < MATCH_RATE_WARN_THRESHOLD
BelowThreshold(m, t) == t # 0 /\ WarnDen * m < WarnNum * t

\* the warning rewritten at every low rate
ShouldWarnAgain(m, t, merge_warning) == BelowThreshold(m, t)

\* line 491: rate < MATCH_RATE_WARN_THRESHOLD and merge_warning is None
ShouldWarn(m, t, merge_warning) == BelowThreshold(m, t) /\ merge_warning = "None"

\* the entry line 490 writes to
RateEntry(k) == k + 1

\* lines 470-492: one iteration of the join loop
Join ==
    /\ InJoin
    /\ IF merge_on = <<>>
       THEN UNCHANGED <<left, report, rates, warn_writes>>
       ELSE /\ left' = MergeLeft(left, right_merge, merge_on)
            /\ rates' = Append(rates, [idx |-> idx, file |-> merged_src[idx + 1],
                                       on |-> merge_on,
                                       matched |-> matched, total |-> total_left,
                                       warned |-> ShouldWarn(matched, total_left,
                                                             report.merge_warning)])
            /\ LET warn == ShouldWarn(matched, total_left, report.merge_warning)
                   r1 == IF Len(report.tables) > idx
                         THEN [report EXCEPT !.tables[RateEntry(idx)].match_rate =
                                                RoundedRate(matched, total_left)]
                         ELSE report
               IN  /\ report' = IF warn THEN [r1 EXCEPT !.merge_warning = "set"] ELSE r1
                   /\ warn_writes' = IF warn THEN warn_writes + 1 ELSE warn_writes
    /\ idx' = idx + 1
    /\ UNCHANGED <<pc, args, merged_dfs, merged_src, fatal_count, cols_to_use, i, ret,
                   schema_report, errors>>
    /\ UNCHANGED <<scan_vars, cache_vars, handler_vars>>

\* line 481 raising ValueError
JoinRaises ==
    /\ InJoin
    /\ merge_on # <<>>
    /\ KeyDtypesDiffer
    /\ pc' = "raised"
    /\ UNCHANGED <<args, report, merged_dfs, merged_src, fatal_count, cols_to_use, i, left,
                   idx, rates, warn_writes, ret, schema_report, errors>>
    /\ UNCHANGED <<scan_vars, cache_vars, handler_vars>>

\* lines 494, 500-502: projection on the reference columns, and return
JoinDone ==
    /\ pc = "join"
    /\ idx = Len(merged_dfs)
    /\ LET result == Reindex(left, report.reference_columns)
       IN  /\ report' = [report EXCEPT !.merged_row_count = Len(result.rows)]
           /\ ret' = [df |-> result, report |-> report']
    /\ schema_report' = report'
    /\ pc' = "returned"
    /\ UNCHANGED <<args, merged_dfs, merged_src, fatal_count, cols_to_use, i, left, idx,
                   rates, warn_writes, errors>>
    /\ UNCHANGED <<scan_vars, cache_vars, handler_vars>>

\* ------------------------------------------------------------ the scanner
\* _row_index_to_file_index(row_index, schema_report)
RECURSIVE RowIndexFrom(_, _, _, _)
RowIndexFrom(row_index, tables, k, cum) ==
    IF k > Len(tables) THEN 0
    ELSE IF row_index < cum + tables[k].row_count THEN k - 1
    ELSE RowIndexFrom(row_index, tables, k + 1, cum + tables[k].row_count)

RowIndexToFileIndex(row_index, rep) == RowIndexFrom(row_index, rep.tables, 1, 0)

\* _get_missing_columns_by_file(schema_report).get(file_idx, set())
MissingColumnsOfFile(rep, file_idx) ==
    IF file_idx + 1 \in 1..Len(rep.tables)
    THEN Range(rep.tables[file_idx + 1].missing_columns)
    ELSE {}

\* _is_empty(value)
IsEmpty(c) == c = NaN \/ StripStr(c.s) \in {"", "nan"}

\* lines 164-187: the defect records of one row, column by column
RECURSIVE NullsOfRow(_, _, _, _)
NullsOfRow(df, rep, row_index, j) ==
    IF j > Len(df.columns) THEN <<>>
    ELSE LET col == df.columns[j]
             missing_cols == MissingColumnsOfFile(rep, RowIndexToFileIndex(row_index, rep))
             rec == [row_index |-> row_index, col_name |-> col,
                     error_type |-> IF col \in missing_cols
                                    THEN "null_structural" ELSE "null_business"]
         IN  (IF IsEmpty(df.rows[row_index + 1].cells[j]) THEN <<rec>> ELSE <<>>)
             \o NullsOfRow(df, rep, row_index, j + 1)

RECURSIVE NullsFrom(_, _, _)
NullsFrom(df, rep, row_index) ==
    IF row_index >= Len(df.rows) THEN <<>>
    ELSE NullsOfRow(df, rep, row_index, 1) \o NullsFrom(df, rep, row_index + 1)

\* main.py line 330: the caller does not scan a fatal merge
FatalMerge(rep) == rep.error # "None" /\ rep.merged_row_count = 0

\* main.py lines 345-353 with scanner.py lines 161-187
Scan ==
    /\ pc = "returned"
    /\ ~FatalMerge(ret.report)
    /\ errors' = NullsFrom(ret.df, ret.report, 0)
    /\ pc' = "scanned"
    /\ UNCHANGED <<args, report, merged_dfs, merged_src, fatal_count, cols_to_use, i, left,
                   idx, rates, warn_writes, ret, schema_report>>
    /\ UNCHANGED <<scan_vars, cache_vars, handler_vars>>

\* ------------------------------------------------------ the cell texts
\* The bounds of the scanner model: rows of a scanned table, scans of it.
MaxRows == 4
MaxScans == 2

\* The characters of each text the cells of a scanned table hold.
Chars(x) ==
    CASE x = "" -> <<>>
      [] x = "a" -> <<"a">>
      [] x = "b" -> <<"b">>
      [] x = "1" -> <<"1">>
      [] x = "2" -> <<"2">>
      [] x = "9" -> <<"9">>
      [] x = "abc" -> <<"a", "b", "c">>
      [] x = "50%" -> <<"5", "0", "%">>
      [] x = "50%%" -> <<"5", "0", "%", "%">>
      [] x = "nan" -> <<"n", "a", "n">>

Digits == <<"0", "1", "2", "3", "4", "5", "6", "7", "8", "9">>

IsDigits(cs) == cs # <<>> /\ \A j \in 1..Len(cs) : cs[j] \in Range(Digits)

RECURSIVE Decimal(_)
Decimal(cs) ==
    IF cs = <<>> THEN 0
    ELSE 10 * Decimal(SubSeq(cs, 1, Len(cs) - 1)) + (IndexOf(Digits, cs[Len(cs)]) - 1)

\* Optional[float]: None, a number, or the float nan
NoneFloat == [ok |-> FALSE, nan |-> FALSE, v |-> 0]
FloatNaN == [ok |-> TRUE, nan |-> TRUE, v |-> 0]
Num(v) == [ok |-> TRUE, nan |-> FALSE, v |-> v]

\* float(s) on the characters of the model: digits give their value, "nan"
\* gives the float nan, anything else raises ValueError (NoneFloat here)
Float(cs) ==
    IF IsDigits(cs) THEN Num(Decimal(cs))
    ELSE IF cs = <<"n", "a", "n">> THEN FloatNaN
    ELSE NoneFloat

\* s.rstrip("%"): every trailing "%" is removed
RECURSIVE RStripPercent(_)
RStripPercent(cs) ==
    IF cs # <<>> /\ cs[Len(cs)] = "%" THEN RStripPercent(SubSeq(cs, 1, Len(cs) - 1)) ELSE cs

\* s.endswith("%")
EndsWithPercent(cs) == cs # <<>> /\ cs[Len(cs)] = "%"

\* _to_float(value)
ToFloat(c) ==
    IF c = NaN \/ Chars(StripStr(c.s)) = <<>> THEN NoneFloat
    ELSE LET s == Chars(StripStr(c.s))
         IN  IF Float(s).ok THEN Float(s)
             ELSE IF EndsWithPercent(s) THEN Float(RStripPercent(s))
             ELSE NoneFloat

\* _is_numeric_value(value)
IsNumericValue(c) ==
    IF c = NaN \/ Chars(StripStr(c.s)) = <<>> THEN TRUE
    ELSE LET s == Chars(StripStr(c.s))
         IN  \/ Float(s).ok
             \/ EndsWithPercent(s) /\ Float(RStripPercent(s)).ok

\* ------------------------------------------------- DataHealthScanner.scan
\* df.iloc[row_index][col]
Cell(df, row_index, col) == df.rows[row_index + 1].cells[IndexOf(df.columns, col)]

\* range(len(df))
RowIndices(df) == [n \in 1..Len(df.rows) |-> n - 1]

\* as Records, but with the row indices counted from 1
RecordsFromOne(hits, col_name, error_type) ==
    [k \in 1..Len(hits) |->
        [row_index |-> hits[k] + 1, col_name |-> col_name, error_type |-> error_type]]

\* one defect record per row index of hits, in order
Records(hits, col_name, error_type) ==
    [k \in 1..Len(hits) |->
        [row_index |-> hits[k], col_name |-> col_name, error_type |-> error_type]]

\* the severity written with each error_type (lines 177, 185, 202, 217,
\* 244, 265, 284)
Severity(e) == IF e.error_type = "null_structural" THEN "structural" ELSE "business"

\* lines 193-204: the type_inconsistent records of one numeric column
TypeErrorsOfColumn(df, col) ==
    Records(SelectSeq(RowIndices(df),
                      LAMBDA r : ~IsEmpty(Cell(df, r, col)) /\ ~IsNumericValue(Cell(df, r, col))),
            col, "type_inconsistent")

\* lines 190-204
RECURSIVE TypeErrors(_, _)
TypeErrors(df, numeric_columns) ==
    IF numeric_columns = <<>> THEN <<>>
    ELSE (IF Head(numeric_columns) \in Range(df.columns)
          THEN TypeErrorsOfColumn(df, Head(numeric_columns)) ELSE <<>>)
         \o TypeErrors(df, Tail(numeric_columns))

\* ",".join(key_cols)
RECURSIVE JoinNames(_)
JoinNames(cols) ==
    IF cols = <<>> THEN ""
    ELSE IF Len(cols) = 1 THEN cols[1]
    ELSE cols[1] \o "," \o JoinNames(Tail(cols))

\* line 211: the key of one row, "" for an absent value
DuplicateKey(df, row_index, cols) ==
    [j \in 1..Len(cols) |->
        IF Cell(df, row_index, cols[j]) = NaN THEN "" ELSE Cell(df, row_index, cols[j]).s]

\* as DuplicateRows, but seen holds the key of the previous row only
RECURSIVE DuplicateRowsAdjacent(_, _, _, _)
DuplicateRowsAdjacent(df, cols, row_index, seen) ==
    IF row_index >= Len(df.rows) THEN <<>>
    ELSE LET key == DuplicateKey(df, row_index, cols)
         IN  (IF key \in seen THEN <<row_index>> ELSE <<>>)
             \o DuplicateRowsAdjacent(df, cols, row_index + 1, {key})

\* lines 210-221: the rows whose key is already in seen
RECURSIVE DuplicateRows(_, _, _, _)
DuplicateRows(df, cols, row_index, seen) ==
    IF row_index >= Len(df.rows) THEN <<>>
    ELSE LET key == DuplicateKey(df, row_index, cols)
         IN  IF key \in seen
             THEN <<row_index>> \o DuplicateRows(df, cols, row_index + 1, seen)
             ELSE DuplicateRows(df, cols, row_index + 1, seen \cup {key})

\* lines 207-221
Duplicates(df, composite_key_columns) ==
    LET cols == Keep(composite_key_columns, Range(df.columns))
    IN  IF cols = <<>> THEN <<>>
        ELSE Records(DuplicateRows(df, cols, 0, {}), JoinNames(cols), "duplicate")

\* _outlier_bounds_iqr: fewer parseable values than this give no bounds
MinOutlierValues == 4
\* k = 1.5 as the fraction IqrKNum / IqrKDen
IqrKNum == 3
IqrKDen == 2
\* quantile(0.25) and quantile(0.75) as QuartileNum / QuartileDen
QuartileDen == 4

\* series.apply(_to_float).dropna(): None and nan are dropped
RECURSIVE NumericValues(_, _, _)
NumericValues(df, col, row_index) ==
    IF row_index >= Len(df.rows) THEN <<>>
    ELSE LET f == ToFloat(Cell(df, row_index, col))
         IN  (IF f.ok /\ ~f.nan THEN <<f.v>> ELSE <<>>)
             \o NumericValues(df, col, row_index + 1)

\* the values in ascending order
RECURSIVE SortValues(_)
SortValues(vals) ==
    IF vals = <<>> THEN <<>>
    ELSE LET least == CHOOSE j \in 1..Len(vals) : \A k \in 1..Len(vals) : vals[j] <= vals[k]
         IN  <<vals[least]>>
             \o SortValues(SubSeq(vals, 1, least - 1) \o SubSeq(vals, least + 1, Len(vals)))

\* numeric.quantile(num / QuartileDen), linear interpolation, times QuartileDen
Quantile(vals, num) ==
    LET s == SortValues(vals)
        h == num * (Len(s) - 1)
        k == h \div QuartileDen
        r == h % QuartileDen
    IN  IF r = 0 THEN QuartileDen * s[k + 1]
        ELSE QuartileDen * s[k + 1] + r * (s[k + 2] - s[k + 1])

\* the bounds are kept times BoundScale
BoundScale == QuartileDen * IqrKDen

NoBounds == [none |-> TRUE, lower |-> 0, upper |-> 0]

\* _outlier_bounds_iqr(series), lower and upper times BoundScale
OutlierBoundsIqr(df, col) ==
    LET numeric == NumericValues(df, col, 0)
    IN  IF Len(numeric) < MinOutlierValues THEN NoBounds
        ELSE LET q1 == Quantile(numeric, 1)
                 q3 == Quantile(numeric, 3)
                 iqr == q3 - q1
             IN  IF iqr = 0
                 THEN [none |-> FALSE, lower |-> IqrKDen * q1, upper |-> IqrKDen * q3]
                 ELSE [none |-> FALSE, lower |-> IqrKDen * q1 - IqrKNum * iqr,
                                       upper |-> IqrKDen * q3 + IqrKNum * iqr]

\* lines 228-246: the outlier records of one column
OutliersOfColumn(df, col) ==
    LET bounds == OutlierBoundsIqr(df, col)
        out(r) == LET f == ToFloat(Cell(df, r, col))
                  IN  /\ ~IsEmpty(Cell(df, r, col))
                      /\ f.ok
                      /\ (BoundScale * f.v < bounds.lower \/ BoundScale * f.v > bounds.upper)
    IN  IF bounds.none THEN <<>>
        ELSE Records(SelectSeq(RowIndices(df), out), col, "outlier")

\* set(self.numeric_columns) | set(self.outlier_columns)
AllOutlierCols(cfg) == Range(cfg.numeric_columns) \cup Range(cfg.outlier_columns)

\* the orders in which list(set(...)) may enumerate a set of labels: the
\* iteration order of a set of strings depends on the hash seed the
\* interpreter process drew when it started
ListOfSet(S) == {o \in [1..Cardinality(S) -> S] : Range(o) = S}

\* lines 224-246, all_outlier_cols enumerated as cols
RECURSIVE Outliers(_, _)
Outliers(df, cols) ==
    IF cols = <<>> THEN <<>>
    ELSE (IF Head(cols) \in Range(df.columns) THEN OutliersOfColumn(df, Head(cols)) ELSE <<>>)
         \o Outliers(df, Tail(cols))

\* the regular expressions of the model: one that accepts the texts made
\* of digits only, one that re.compile rejects with re.error, and one whose
\* repeat count re.compile rejects with OverflowError
DigitsPattern == "^[0-9]+$"
BadPattern == "["
HugeRepeatPattern == "a{4294967296}"

\* re.compile(pattern_str): a pattern object or the exception raised
ReCompile(pattern_str) ==
    CASE pattern_str = BadPattern -> "re.error"
      [] pattern_str = HugeRepeatPattern -> "OverflowError"
      [] OTHER -> "compiled"

\* lines 252-255: the exception of re.compile is not the re.error caught
PatternRaises(df, pattern_columns) ==
    \E k \in 1..Len(pattern_columns) :
        /\ pattern_columns[k].col \in Range(df.columns)
        /\ ReCompile(pattern_columns[k].pattern) \notin {"compiled", "re.error"}

\* re.compile(pattern_str) returns a pattern object
Compiles(pattern_str) == ReCompile(pattern_str) = "compiled"

\* pat.search(str(val).strip()) is not None
Search(pattern_str, c) == IsDigits(Chars(StripStr(c.s)))

\* lines 249-267: pattern_columns is the sequence of its (col, pattern) items
RECURSIVE PatternMismatches(_, _)
PatternMismatches(df, pattern_columns) ==
    IF pattern_columns = <<>> THEN <<>>
    ELSE LET col == Head(pattern_columns).col
             pattern_str == Head(pattern_columns).pattern
         IN  (IF col \in Range(df.columns) /\ Compiles(pattern_str)
              THEN Records(SelectSeq(RowIndices(df),
                                     LAMBDA r : /\ ~IsEmpty(Cell(df, r, col))
                                                /\ ~Search(pattern_str, Cell(df, r, col))),
                           col, "pattern_mismatch")
              ELSE <<>>)
             \o PatternMismatches(df, Tail(pattern_columns))

\* a constraint without the key "op"
NoOp == "no op"

\* line 274: c.get("op", ">")
GetOp(c) == IF c.op = NoOp THEN ">" ELSE c.op

\* as EvalConstraint, but an operator that is none of the five is never
\* satisfied
EvalConstraintUnknownFails(left_val, op, right_val) ==
    IF ~left_val.ok \/ ~right_val.ok THEN TRUE
    ELSE IF left_val.nan \/ right_val.nan THEN FALSE
    ELSE CASE op = ">" -> left_val.v > right_val.v
           [] op = "<" -> left_val.v < right_val.v
           [] op = ">=" -> left_val.v >= right_val.v
           [] op = "<=" -> left_val.v <= right_val.v
           [] op = "==" -> left_val.v = right_val.v
           [] OTHER -> FALSE

\* _eval_constraint(left_val, op, right_val); a comparison with nan is false
EvalConstraint(left_val, op, right_val) ==
    IF ~left_val.ok \/ ~right_val.ok THEN TRUE
    ELSE IF left_val.nan \/ right_val.nan THEN op \notin {">", "<", ">=", "<=", "=="}
    ELSE CASE op = ">" -> left_val.v > right_val.v
           [] op = "<" -> left_val.v < right_val.v
           [] op = ">=" -> left_val.v >= right_val.v
           [] op = "<=" -> left_val.v <= right_val.v
           [] op = "==" -> left_val.v = right_val.v
           [] OTHER -> TRUE

\* lines 270-286
RECURSIVE ConstraintViolations(_, _)
ConstraintViolations(df, constraints) ==
    IF constraints = <<>> THEN <<>>
    ELSE LET c == Head(constraints)
         IN  (IF c.left \in Range(df.columns) /\ c.right \in Range(df.columns)
              THEN Records(SelectSeq(RowIndices(df),
                                     LAMBDA r : ~EvalConstraint(ToFloat(Cell(df, r, c.left)), GetOp(c),
                                                                ToFloat(Cell(df, r, c.right)))),
                           c.left \o " vs " \o c.right, "constraint_violation")
              ELSE <<>>)
             \o ConstraintViolations(df, Tail(constraints))

\* lines 161-286: the errors list, all_outlier_cols enumerated as cols
ScanErrors(cfg, df, rep, cols) ==
    NullsFrom(df, rep, 0)
        \o TypeErrors(df, cfg.numeric_columns)
        \o Duplicates(df, cfg.composite_key_columns)
        \o Outliers(df, cols)
        \o PatternMismatches(df, cfg.pattern_columns)
        \o ConstraintViolations(df, cfg.constraints)

\* lines 289-295: sum(1 for e in errors if ...) for each kind
Counts(errs) ==
    LET count(error_type) == Len(SelectSeq(errs, LAMBDA e : e.error_type = error_type))
    IN  [structural_nulls |-> Len(SelectSeq(errs, LAMBDA e : Severity(e) = "structural")),
         business_nulls |-> count("null_business"),
         type_errors |-> count("type_inconsistent"),
         duplicates |-> count("duplicate"),
         outliers |-> count("outlier"),
         pattern_mismatch |-> count("pattern_mismatch"),
         constraint_violation |-> count("constraint_violation"),
         total |-> Len(errs)]

\* as Parts, but with a part for every count, zero or not
PartsWithZeros(counts) ==
    <<[n |-> counts.structural_nulls, text |-> "structural nulls"],
      [n |-> counts.business_nulls, text |-> "business nulls"],
      [n |-> counts.type_errors, text |-> "type inconsistencies"],
      [n |-> counts.duplicates, text |-> "duplicates"],
      [n |-> counts.outliers, text |-> "outliers"],
      [n |-> counts.pattern_mismatch, text |-> "pattern mismatches"],
      [n |-> counts.constraint_violation, text |-> "constraint violations"]>>

\* lines 296-310: one part per non-zero count, in the order of the code
Parts(counts) ==
    LET part(n, text) == IF n > 0 THEN <<[n |-> n, text |-> text]>> ELSE <<>>
    IN  part(counts.structural_nulls, "structural nulls")
            \o part(counts.business_nulls, "business nulls")
            \o part(counts.type_errors, "type inconsistencies")
            \o part(counts.duplicates, "duplicates")
            \o part(counts.outliers, "outliers")
            \o part(counts.pattern_mismatch, "pattern mismatches")
            \o part(counts.constraint_violation, "constraint violations")

\* line 311
Summary(counts) ==
    IF Parts(counts) # <<>> THEN [text |-> "found", parts |-> Parts(counts)]
    ELSE [text |-> "no defects found", parts |-> <<>>]

\* lines 313-327
HealthManifest(errs) == [errors |-> errs, summary |-> Summary(Counts(errs)), counts |-> Counts(errs)]

\* ------------------------------------------------- the scanner's inputs
\* The labels the scanner defaults name: "fenshu" stands for the source's
\* score column, "xingming" and "banji" for its name and class columns;
\* "jine" is an amount column and "zz" a label no table has.
DefaultNumericColumns == <<"fenshu">>
DefaultCompositeKeyColumns == <<"xingming", "banji">>

TableColumns == <<"xingming", "fenshu", "jine">>

\* the rows of the scanned tables: the cells under TableColumns
ScanRowSet ==
    { <<Str("a"), Str("1"), Str("1")>>,
      <<Str("a"), Str("9"), Str("9")>>,
      <<NaN, Str("abc"), Str("50%")>>,
      <<Str(""), Str("50%%"), Str("2")>>,
      <<Str("b"), Str("nan"), NaN>> }

\* the tables handed to scan: up to MaxRows rows of ScanRowSet, in any order
Tables ==
    {[columns |-> TableColumns, rows |-> [n \in 1..Len(rs) |-> [src |-> 0, cells |-> rs[n]]]] :
        rs \in UNION {[1..n -> ScanRowSet] : n \in 0..MaxRows}}

\* the report that comes with a table: one file, which lacked the column jine
ScanReport(df) ==
    [NewReport EXCEPT
        !.reference_columns = df.columns,
        !.merged_row_count = Len(df.rows),
        !.tables = <<[NewEntry(0) EXCEPT !.row_count = Len(df.rows),
                                         !.missing_columns = <<"jine">>]>>]

ConstraintOps == {">", "<", ">=", "<=", "=="}

\* the arguments of DataHealthScanner(...): NoneCols is an argument left
\* out; an absent and an empty pattern_columns or constraints are both <<>>
ScannerArgs ==
    {[composite_key_columns |-> k, numeric_columns |-> n, outlier_columns |-> o,
      pattern_columns |-> <<>>, constraints |-> <<>>] :
        k \in {NoneCols, <<>>, <<"xingming">>, <<"xingming", "fenshu">>, <<"zz">>},
        n \in {NoneCols, <<>>, <<"fenshu">>, <<"zz">>},
        o \in {NoneCols, <<"jine">>}}
    \cup
    {[composite_key_columns |-> <<"xingming">>, numeric_columns |-> <<"fenshu">>,
      outlier_columns |-> NoneCols, pattern_columns |-> p, constraints |-> c] :
        p \in {<<>>, <<[col |-> "fenshu", pattern |-> DigitsPattern]>>,
               <<[col |-> "fenshu", pattern |-> BadPattern]>>,
               <<[col |-> "fenshu", pattern |-> HugeRepeatPattern]>>,
               <<[col |-> "zz", pattern |-> DigitsPattern]>>},
        c \in {<<>>, <<[left |-> "fenshu", op |-> ">", right |-> "zz"]>>}
              \cup {<<[left |-> "fenshu", op |-> op, right |-> "jine"]>> :
                        op \in ConstraintOps \cup {"=", NoOp}}
              \cup {<<[left |-> "fenshu", op |-> "=", right |-> "jine"],
                      [left |-> "jine", op |-> NoOp, right |-> "fenshu"]>>}}

\* no scanner object yet
NoScanner ==
    [composite_key_columns |-> <<>>, numeric_columns |-> <<>>, outlier_columns |-> <<>>,
     pattern_columns |-> <<>>, constraints |-> <<>>]

ScannerInit ==
    /\ scanner = NoScanner
    /\ scanner_args = NoScanner
    /\ scan_df = EmptyDF
    /\ manifests = <<>>
    /\ set_order = <<>>
    /\ scan_raised = FALSE

\* x or default
OrDefault(x, default) == IF x = NoneCols \/ x = <<>> THEN default ELSE x

\* list(x) if x else []
ListOrEmpty(x) == IF x = NoneCols THEN <<>> ELSE x

\* DataHealthScanner.__init__, also as called by scan_health
Construct ==
    /\ scanner = NoScanner
    /\ \E a \in ScannerArgs :
        /\ scanner_args' = a
        /\ scanner' =
              [composite_key_columns |-> OrDefault(a.composite_key_columns,
                                                   DefaultCompositeKeyColumns),
               numeric_columns |-> OrDefault(a.numeric_columns, DefaultNumericColumns),
               outlier_columns |-> ListOrEmpty(a.outlier_columns),
               pattern_columns |-> a.pattern_columns,
               constraints |-> a.constraints]
    /\ set_order' \in ListOfSet(AllOutlierCols(scanner'))
    /\ UNCHANGED <<merge_vars, handler_vars, scan_df, manifests, scan_raised, cache_vars>>

\* the interpreter process ends and a new one builds the scanner from the
\* same arguments: the new process has its own hash seed
Restart ==
    /\ scanner # NoScanner
    /\ manifests # <<>>
    /\ Len(manifests) < MaxScans
    /\ set_order' \in ListOfSet(AllOutlierCols(scanner))
    /\ UNCHANGED <<merge_vars, handler_vars, scanner, scanner_args, scan_df, manifests, scan_raised,
                   cache_vars>>

\* DataHealthScanner.scan(df, schema_report); a later scan is handed the
\* table of the first one again.  The call returns a manifest unless the
\* pattern pass raises.
ScanTable ==
    /\ scanner # NoScanner
    /\ Len(manifests) < MaxScans
    /\ \E df \in (IF manifests = <<>> /\ ~scan_raised THEN Tables ELSE {scan_df}) :
        /\ scan_df' = df
        /\ IF PatternRaises(df, scanner.pattern_columns)
           THEN /\ scan_raised' = TRUE
                /\ UNCHANGED manifests
           ELSE /\ manifests' = Append(manifests,
                                       HealthManifest(ScanErrors(scanner, df, ScanReport(df),
                                                                 set_order)))
                /\ UNCHANGED scan_raised
    /\ UNCHANGED <<merge_vars, handler_vars, scanner, scanner_args, set_order, cache_vars>>

\* ------------------------------------------------------ the upload cache
\* src/main.py: the handlers are coroutines of one event loop, so the code
\* between two awaits runs as one step.  A cache key is the number of the
\* uuid4 value that named it; 0 is a request without a usable cache_key.
CACHE_MAX_ENTRIES == 20

\* The bounds of the cache model: keys handed out, merge-and-scan requests,
\* requests waiting on an await at the same time.
MaxKeys == 22
MaxMerges == 2
MaxInFlight == 2

CacheInit ==
    /\ upload_cache = <<>>
    /\ requests = [analyzing |-> 0, reading |-> 0, merges |-> 0]
    /\ keys_issued = 0
    /\ claims = EmptyBag
    /\ misses = {}

\* as EvictCacheIfNeeded, but the entry inserted last is the one deleted
EvictNewest(cache) ==
    IF Len(cache) < CACHE_MAX_ENTRIES THEN cache ELSE SubSeq(cache, 1, Len(cache) - 1)

\* _evict_cache_if_needed()
EvictCacheIfNeeded(cache) == IF Len(cache) < CACHE_MAX_ENTRIES THEN cache ELSE Tail(cache)

\* as Pop, but the entry is read and left in the cache
PopKeepsEntry(cache, cache_key) == cache

\* _upload_cache.pop(cache_key, None): the cache without the key
Pop(cache, cache_key) == SelectSeq(cache, LAMBDA k : k # cache_key)

\* analyze-headers, lines 240-246: a request without CSV files is answered
\* 400; otherwise the handler starts awaiting the reads of its files
AnalyzeHeaders ==
    /\ \E has_csv \in BOOLEAN :
        IF has_csv
        THEN /\ requests.analyzing + requests.reading < MaxInFlight
             /\ requests' = [requests EXCEPT !.analyzing = @ + 1]
        ELSE UNCHANGED requests
    /\ UNCHANGED <<merge_vars, handler_vars, scan_vars, upload_cache, keys_issued, claims, misses>>

\* analyze-headers, lines 247-257: after the last read, evict, insert under
\* a fresh key, answer
AnalyzeHeadersInsert ==
    /\ requests.analyzing > 0
    /\ keys_issued < MaxKeys
    /\ keys_issued' = keys_issued + 1
    /\ upload_cache' = Append(EvictCacheIfNeeded(upload_cache), keys_issued + 1)
    /\ requests' = [requests EXCEPT !.analyzing = @ - 1]
    /\ UNCHANGED <<merge_vars, handler_vars, scan_vars, claims, misses>>

\* merge-and-scan, lines 270-277 and what follows up to the first await:
\* a cached entry is popped and merged at once; without one the request
\* reads its own files, or is answered 400 when it has none
MergeAndScan ==
    /\ requests.merges < MaxMerges
    /\ \E cache_key \in 0..keys_issued, has_csv \in BOOLEAN :
        IF cache_key \in Range(upload_cache)
        THEN /\ upload_cache' = Pop(upload_cache, cache_key)
             /\ claims' = claims (+) SetToBag({cache_key})
             /\ requests' = [requests EXCEPT !.merges = @ + 1]
             /\ UNCHANGED misses
        ELSE /\ misses' = IF cache_key = 0 THEN misses ELSE misses \cup {cache_key}
             /\ IF has_csv
                THEN /\ requests.analyzing + requests.reading < MaxInFlight
                     /\ requests' = [requests EXCEPT !.merges = @ + 1, !.reading = @ + 1]
                ELSE requests' = [requests EXCEPT !.merges = @ + 1]
             /\ UNCHANGED <<upload_cache, claims>>
    /\ UNCHANGED <<merge_vars, handler_vars, scan_vars, keys_issued>>

\* merge-and-scan, lines 303-364: the reads are over, the request merges
\* its own files and answers
MergeOwnFiles ==
    /\ requests.reading > 0
    /\ requests' = [requests EXCEPT !.reading = @ - 1]
    /\ UNCHANGED <<merge_vars, handler_vars, scan_vars, upload_cache, keys_issued, claims, misses>>

\* ------------------------------------------- the merge-and-scan handlers
\* merge_and_scan of src/main.py and of src/server.py, and check_status of
\* src/main.py.  After its reads a handler runs to its answer without an
\* await, so requests are handled one after the other.  The fingerprint
\* (sha256 of the contents) of the n-th request is the number n.
MaxRequests == 2
MaxUpload == 2

\* _last_merge_fingerprint = None; "fingerprint": None in an answer
NoFingerprint == 0
\* an answer without a fingerprint field
FingerprintAbsent == -1
\* check-status was not called since the last answer
NotPolled == -2

NoRequest == [handler |-> "none", fingerprint |-> NoFingerprint]

NoResponse ==
    [status |-> "none", scanned |-> FALSE, merged |-> EmptyDF, errors |-> <<>>,
     fingerprint |-> FingerprintAbsent]

HandlerInit ==
    /\ request = NoRequest
    /\ response = NoResponse
    /\ last_merge_fingerprint = NoFingerprint
    /\ polled = NotPolled

Handlers == {"main", "server"}

\* the CSV files of one request, in the order of their names
UploadArgs == {fl \in FilePathsArgs : Len(fl) \in 1..MaxUpload}

\* the request was answered (a call that raised is answered 500 by the
\* framework) and its handler has not returned yet
Answered == pc \in {"answered", "scanned", "raised"}

\* main.py lines 274-277, server.py lines 48-50: no CSV file, answer 400
Reject ==
    /\ pc = "idle"
    /\ request.fingerprint < MaxRequests
    /\ \E h \in Handlers : request' = [handler |-> h, fingerprint |-> request.fingerprint + 1]
    /\ response' = [NoResponse EXCEPT !.status = "400"]
    /\ polled' = NotPolled
    /\ pc' = "answered"
    /\ UNCHANGED <<args, report, merged_dfs, merged_src, fatal_count, cols_to_use, i, left, idx,
                   rates, warn_writes, ret, schema_report, errors>>
    /\ UNCHANGED <<scan_vars, cache_vars, last_merge_fingerprint>>

\* main.py lines 279-329, server.py lines 52-64: the files are written to a
\* temporary directory, the fingerprint is taken and a new TableMerger is
\* called (merger.py lines 361-392); server.py passes the paths only
MergeRequest ==
    /\ pc = "idle"
    /\ request.fingerprint < MaxRequests
    /\ \E h \in Handlers, fl \in UploadArgs, base \in BaselineArgs, inc \in BOOLEAN,
          keys \in PrimaryKeyArgs :
        /\ h = "server" => (base = NoneCols /\ ~inc /\ keys = <<>>)
        /\ request' = [handler |-> h, fingerprint |-> request.fingerprint + 1]
        /\ engine' = "core"
        /\ file_paths' = fl
        /\ baseline_columns' = base
        /\ template_incremental' = inc
        /\ primary_key_columns' = keys
        /\ cols_to_use' = IF inc THEN IncrementalColumns(fl, base) ELSE base
    /\ response' = NoResponse
    /\ polled' = NotPolled
    /\ schema_report' = UnsetReport
    /\ report' = NewReport
    /\ merged_dfs' = <<>>
    /\ merged_src' = <<>>
    /\ fatal_count' = 0
    /\ i' = 0
    /\ left' = EmptyDF
    /\ idx' = 0
    /\ rates' = <<>>
    /\ warn_writes' = 0
    /\ ret' = NoReturn
    /\ errors' = <<>>
    /\ pc' = "loop"
    /\ UNCHANGED <<scan_vars, cache_vars, last_merge_fingerprint>>

\* main.py lines 330-340, server.py lines 66-75: the answer to a fatal merge
FatalAnswer ==
    /\ request # NoRequest
    /\ pc = "returned"
    /\ FatalMerge(ret.report)
    /\ response' = [status |-> "200", scanned |-> FALSE, merged |-> EmptyDF, errors |-> <<>>,
                    fingerprint |-> IF request.handler = "main" THEN NoFingerprint
                                    ELSE FingerprintAbsent]
    /\ pc' = "answered"
    /\ UNCHANGED <<args, report, merged_dfs, merged_src, fatal_count, cols_to_use, i, left, idx,
                   rates, warn_writes, ret, schema_report, errors>>
    /\ UNCHANGED <<scan_vars, cache_vars, request, last_merge_fingerprint, polled>>

\* main.py lines 342-364, server.py lines 77-84: scan_health is called on
\* the merged table (its null records are kept here, as in Scan), main.py
\* stores the fingerprint, and the answer carries table and manifest
ScanAndAnswer ==
    /\ request # NoRequest
    /\ pc = "returned"
    /\ ~FatalMerge(ret.report)
    /\ errors' = NullsFrom(ret.df, ret.report, 0)
    /\ last_merge_fingerprint' = IF request.handler = "main" THEN request.fingerprint
                                 ELSE last_merge_fingerprint
    /\ response' = [status |-> "200", scanned |-> TRUE, merged |-> ret.df, errors |-> errors',
                    fingerprint |-> IF request.handler = "main" THEN request.fingerprint
                                    ELSE FingerprintAbsent]
    /\ pc' = "scanned"
    /\ UNCHANGED <<args, report, merged_dfs, merged_src, fatal_count, cols_to_use, i, left, idx,
                   rates, warn_writes, ret, schema_report>>
    /\ UNCHANGED <<scan_vars, cache_vars, request, polled>>

\* main.py lines 76-83: check_status, called once the request is answered
CheckStatus ==
    /\ request # NoRequest
    /\ Answered
    /\ polled = NotPolled
    /\ polled' = last_merge_fingerprint
    /\ UNCHANGED <<merge_vars, scan_vars, cache_vars, request, response, last_merge_fingerprint>>

\* the handler returns: its merger, tables and answer are dropped, the
\* process-wide fingerprint stays, and the next request can be handled
Return ==
    /\ request # NoRequest
    /\ Answered
    /\ pc' = "idle"
    /\ response' = NoResponse
    /\ polled' = NotPolled
    /\ engine' = "core"
    /\ file_paths' = <<>>
    /\ baseline_columns' = NoneCols
    /\ template_incremental' = FALSE
    /\ primary_key_columns' = <<>>
    /\ report' = NewReport
    /\ merged_dfs' = <<>>
    /\ merged_src' = <<>>
    /\ fatal_count' = 0
    /\ cols_to_use' = NoneCols
    /\ i' = 0
    /\ left' = EmptyDF
    /\ idx' = 0
    /\ rates' = <<>>
    /\ warn_writes' = 0
    /\ ret' = NoReturn
    /\ schema_report' = UnsetReport
    /\ errors' = <<>>
    /\ UNCHANGED <<scan_vars, cache_vars, request, last_merge_fingerprint>>

\* ---------------------------------------------------- the specifications
Init == MergerInit /\ ScannerInit /\ CacheInit /\ HandlerInit

Next ==
    \/ Call
    \/ ReadError
    \/ DuplicateColumns
    \/ FirstFile
    \/ NoBaseline
    \/ FatalMismatch
    \/ AlignFile
    \/ ReturnEmpty
    \/ Stack
    \/ StartJoin
    \/ Join
    \/ JoinRaises
    \/ JoinDone
    \/ Scan

Spec == Init /\ [][Next]_vars

\* DataHealthScanner on its own: any configuration, any table
ScanNext ==
    \/ Construct
    \/ ScanTable
    \/ Restart

ScanSpec == Init /\ [][ScanNext]_vars

\* the two cache-using handlers of src/main.py under any interleaving
CacheNext ==
    \/ AnalyzeHeaders
    \/ AnalyzeHeadersInsert
    \/ MergeAndScan
    \/ MergeOwnFiles

CacheSpec == Init /\ [][CacheNext]_vars

\* the handlers around the merge engine: requests one after the other
HandlerNext ==
    \/ Reject
    \/ MergeRequest
    \/ ReadError
    \/ DuplicateColumns
    \/ FirstFile
    \/ NoBaseline
    \/ FatalMismatch
    \/ AlignFile
    \/ ReturnEmpty
    \/ Stack
    \/ StartJoin
    \/ Join
    \/ JoinRaises
    \/ JoinDone
    \/ FatalAnswer
    \/ ScanAndAnswer
    \/ CheckStatus
    \/ Return

HandlerSpec == Init /\ [][HandlerNext]_vars


\* ------------------------------------------------------------ the claims
Returned == pc \in {"returned", "scanned"}

Stacked == Returned /\ rates = <<>> /\ ret.report.error = "None"

NonEmpty(df) == Len(df.rows) > 0 /\ Len(df.columns) > 0

\* the row counts of the input files whose entry has status ok
KeptRowCounts ==
    [k \in 1..Len(ret.report.tables) |->
        IF ret.report.tables[k].status = "ok" THEN Len(file_paths[k].rows) ELSE 0]

RowCountOfFile0 == IF file_paths[1].readable THEN Len(file_paths[1].rows) ELSE 0

\* C1: whenever merge_and_report returns a non-empty merged table, the
\* column sequence of the table equals the report's reference_columns.
C1_ColumnsAreReferenceColumns ==
    (Returned /\ NonEmpty(ret.df)) => ret.df.columns = ret.report.reference_columns

\* C2: without primary key columns the merged row count is the sum of the
\* row counts of the kept files; with primary key columns it is the row
\* count of file 0.
C2_RowCount ==
    (Returned /\ file_paths # <<>> /\ ret.report.error = "None") =>
        IF primary_key_columns = <<>>
        THEN Len(ret.df.rows) = SumSeq(KeptRowCounts)
        ELSE Len(ret.df.rows) = RowCountOfFile0

\* C3: every null_structural record names a column listed in the
\* missing_columns of the entry of the file that produced the row, and
\* every null_business record names a column not listed there.
C3_NullAttribution ==
    pc = "scanned" =>
        \A n \in 1..Len(errors) :
            LET e == errors[n]
                f == ret.df.rows[e.row_index + 1].src
                listed == e.col_name \in Range(ret.report.tables[f + 1].missing_columns)
            IN  /\ e.error_type = "null_structural" => listed
                /\ e.error_type = "null_business" => ~listed

FirstFileBroken ==
    file_paths # <<>> /\ (~file_paths[1].readable \/ HasDuplicates(file_paths[1].header))

\* C4: merge_and_report never raises; when the first file is unreadable or
\* has duplicate column names it returns an empty table and a report with
\* a top-level error.
C4_NeverRaises ==
    /\ pc # "raised"
    /\ (Returned /\ FirstFileBroken) => (ret.df = EmptyDF /\ ret.report.error # "None")


\* the 0-based indices of the input files whose entry has the status st
FilesWithStatus(st) == {k - 1 : k \in {m \in 1..Len(report.tables) : report.tables[m].status = st}}

\* the input files that have rows in a table
SourcesOf(df) == {df.rows[n].src : n \in 1..Len(df.rows)}

\* the input files that have rows in a table still in use
RowSources ==
    SourcesOf(left) \cup SourcesOf(ret.df)
        \cup UNION {SourcesOf(merged_dfs[j]) : j \in 1..Len(merged_dfs)}

LoopAborted == pc = "raised" /\ i < Len(file_paths)

\* C5: a file at index > 0 that shares no column with the baseline gets a
\* Fatal Mismatch entry, contributes no rows, does not stop the files
\* after it from being processed and kept, and the returned
\* fatal_mismatch_count is the number of Fatal Mismatch entries.
C5_FatalMismatch ==
    /\ \A k \in 2..Len(report.tables) :
          (file_paths[k].readable /\ cols_to_use # NoneCols) =>
              ((Range(file_paths[k].header) \cap Range(cols_to_use) = {})
                  <=> report.tables[k].status = "Fatal Mismatch")
    /\ \A f \in FilesWithStatus("Fatal Mismatch") :
          f \notin Range(merged_src) /\ f \notin RowSources
    /\ LoopAborted => FilesWithStatus("Fatal Mismatch") = {}
    /\ pc = "loop" => Len(report.tables) = i
    /\ (Returned /\ file_paths # <<>> /\ report.error = "None") =>
          /\ Len(report.tables) = Len(file_paths)
          /\ FilesWithStatus("ok") = Range(merged_src)
    /\ Returned =>
          ret.report.fatal_mismatch_count =
              Cardinality({k \in 1..Len(ret.report.tables) :
                              ret.report.tables[k].status = "Fatal Mismatch"})

\* a Fatal Mismatch file with rows, followed by a kept file whose rows are
\* in the stacked result
C5_Witness ==
    /\ Stacked
    /\ \E f \in FilesWithStatus("Fatal Mismatch") :
          /\ f > 0
          /\ Len(file_paths[f + 1].rows) > 0
          /\ f + 1 \in SourcesOf(ret.df)
    /\ ret.report.fatal_mismatch_count = 1

\* C6: a file at index > 0 that cannot be read gets a read_error entry
\* with row_count 0, contributes no rows, and the files after it are still
\* processed and, when kept, merged.
C6_ReadErrorDoesNotAbort ==
    /\ \A k \in 2..Len(report.tables) :
          ~file_paths[k].readable =>
              (report.tables[k].status = "read_error" /\ report.tables[k].row_count = 0)
    /\ \A f \in FilesWithStatus("read_error") : f \notin RowSources
    /\ LoopAborted => FilesWithStatus("read_error") \subseteq {0}
    /\ (Returned /\ file_paths # <<>> /\ report.error = "None") =>
          /\ Len(report.tables) = Len(file_paths)
          /\ FilesWithStatus("ok") = Range(merged_src)

\* the trimmed key tuples of the rows of input file f
SourceKeys(f, on) ==
    IF file_paths[f + 1].readable /\ Range(on) \subseteq Range(file_paths[f + 1].header)
    THEN LET df == StripPrimaryKeyColumns(ReadTable(file_paths[f + 1], f), on)
         IN  {KeyOf(df, n, on) : n \in 1..Len(df.rows)}
    ELSE {}

\* C7: the match rate computed for a joined file is the number of distinct
\* key tuples of file 0 that occur in the joined file, over the row count
\* of file 0.
C7_MatchRate ==
    \A n \in 1..Len(rates) :
        /\ rates[n].total = RowCountOfFile0
        /\ rates[n].total > 0 =>
              rates[n].matched =
                  Cardinality(SourceKeys(0, rates[n].on) \cap SourceKeys(rates[n].file, rates[n].on))

\* C8: the match rate of each joined file is on the entry of that file,
\* and the entries of the other files keep match_rate unset.
C8_RateOnOwnEntry ==
    (Returned /\ rates # <<>>) =>
        \A k \in 1..Len(ret.report.tables) :
            LET joins == {n \in 1..Len(rates) : rates[n].file = k - 1}
            IN  IF joins = {}
                THEN ret.report.tables[k].match_rate = NoRate
                ELSE \A n \in joins :
                        ret.report.tables[k].match_rate =
                            RoundedRate(rates[n].matched, rates[n].total)

\* rate < 0.8 for the n-th computed rate (a rate over 0 rows is 1.0)
RateIsLow(n) == rates[n].total > 0 /\ 10 * rates[n].matched < 8 * rates[n].total

\* C9: at return merge_warning is set exactly when the merge was key-joined
\* and some joined file had a match rate below 0.8; it is written once, at
\* the first such file, and never by a stack merge.
C9_MergeWarning ==
    /\ warn_writes <= 1
    /\ \A n \in 1..Len(rates) :
          rates[n].warned <=> (RateIsLow(n) /\ \A m \in 1..(n - 1) : ~RateIsLow(m))
    /\ Returned =>
          /\ (ret.report.merge_warning = "set") <=> (\E n \in 1..Len(rates) : RateIsLow(n))
          /\ (ret.report.merge_warning = "set") <=> (warn_writes = 1)

\* a key-joined merge of three files, both joined files with a low rate
C9_Witness ==
    /\ Returned
    /\ Len(rates) = 2
    /\ RateIsLow(1) /\ RateIsLow(2)
    /\ ret.report.merge_warning = "set"
    /\ warn_writes = 1

\* sub lists exactly the members of seq that are in S, in the order of seq
ExactlyInOrder(sub, seq, S) ==
    /\ Range(sub) = Range(seq) \cap S
    /\ ~HasDuplicates(sub)
    /\ \A a, b \in 1..Len(sub) : a < b => IndexOf(seq, sub[a]) < IndexOf(seq, sub[b])

EntriesAreExact ==
    \A k \in 1..Len(report.tables) :
        file_paths[k].readable =>
            /\ ExactlyInOrder(report.tables[k].missing_columns, cols_to_use,
                              Range(cols_to_use) \ Range(file_paths[k].header))
            /\ ExactlyInOrder(report.tables[k].extra_columns, file_paths[k].header,
                              Range(file_paths[k].header) \ Range(cols_to_use))

\* C10 as stated: exact missing_columns and extra_columns for every
\* readable file, and every kept table has the baseline columns in
\* baseline order.
C10_Original ==
    /\ EntriesAreExact
    /\ \A j \in 1..Len(merged_dfs) : merged_dfs[j].columns = cols_to_use

\* C10 amended: as C10, except that file 0 of a key-joined incremental
\* merge is kept with its own columns in its own order.
C10_Amended ==
    /\ EntriesAreExact
    /\ \A j \in 1..Len(merged_dfs) :
          merged_dfs[j].columns =
              IF merged_src[j] = 0 /\ primary_key_columns # <<>> /\ template_incremental
              THEN file_paths[1].header
              ELSE cols_to_use

\* a reordered file with an extra column, aligned on the baseline <<K, A>>
C10_Witness ==
    /\ Len(merged_dfs) = 2
    /\ cols_to_use = <<"K", "A">>
    /\ file_paths[2].header = <<"A", "K", "B">>
    /\ report.tables[2].missing_columns = <<>>
    /\ report.tables[2].extra_columns = <<"B">>
    /\ merged_dfs[2].columns = <<"K", "A">>
    /\ Len(merged_dfs[2].rows) = 2

\* ------------------------------------------------- the scanner's claims
\* the defect records of kind error_type in a manifest
RecordsOfKind(m, error_type) == SelectSeq(m.errors, LAMBDA e : e.error_type = error_type)

\* the row indices carrying a record of kind error_type
RowsOfKind(m, error_type) ==
    {RecordsOfKind(m, error_type)[k].row_index : k \in 1..Len(RecordsOfKind(m, error_type))}

\* the rows of the scanned table, 0-based
ScannedRows == 0..(Len(scan_df.rows) - 1)

\* the text of a cell of the scanned table, absent values as the empty string
TextOrEmpty(r, col) ==
    LET c == scan_df.rows[r + 1].cells[IndexOf(scan_df.columns, col)]
    IN  IF c = NaN THEN "" ELSE c.s

\* the scanner's key columns that the scanned table has
KeyColumnsPresent ==
    SelectSeq(scanner.composite_key_columns, LAMBDA c : c \in Range(scan_df.columns))

KeyTuple(r) == [j \in 1..Len(KeyColumnsPresent) |-> TextOrEmpty(r, KeyColumnsPresent[j])]

\* C11: with key columns present in the table, row r has a duplicate
\* record if and only if an earlier row has the same key tuple (absent
\* values as ""), and the number of duplicate records is the row count
\* minus the number of distinct key tuples.
C11_DuplicatesAfterFirst ==
    \A n \in 1..Len(manifests) :
        KeyColumnsPresent # <<>> =>
            /\ \A r \in ScannedRows :
                  r \in RowsOfKind(manifests[n], "duplicate")
                      <=> \E q \in 0..(r - 1) : KeyTuple(q) = KeyTuple(r)
            /\ Len(RecordsOfKind(manifests[n], "duplicate"))
                  = Len(scan_df.rows) - Cardinality({KeyTuple(r) : r \in ScannedRows})

\* keys a, absent, a, "": the third and the fourth row are duplicates
C11_Witness ==
    /\ manifests # <<>>
    /\ KeyColumnsPresent = <<"xingming">>
    /\ Len(scan_df.rows) = 4
    /\ [r \in 1..4 |-> TextOrEmpty(r - 1, "xingming")] = <<"a", "", "a", "">>
    /\ scan_df.rows[2].cells[1] = NaN
    /\ RowsOfKind(manifests[1], "duplicate") = {2, 3}

\* a cell of the scanned table
ScannedCell(r, col) == scan_df.rows[r + 1].cells[IndexOf(scan_df.columns, col)]

\* the cell is absent, blank, or the null token
IsEmptyCell(r, col) == ScannedCell(r, col) = NaN \/ TextOrEmpty(r, col) \in {"", "nan"}

\* the text is a number: here, a non-empty run of digits
IsNumberText(cs) == cs # <<>> /\ \A j \in 1..Len(cs) : cs[j] \in Range(Digits)

\* the text is a number followed by one trailing % sign
IsPercentText(cs) ==
    Len(cs) >= 2 /\ cs[Len(cs)] = "%" /\ IsNumberText(SubSeq(cs, 1, Len(cs) - 1))

\* the cell parses as a number, percentage notation included
ParsesAsNumber(r, col) ==
    /\ ~IsEmptyCell(r, col)
    /\ IsNumberText(Chars(TextOrEmpty(r, col))) \/ IsPercentText(Chars(TextOrEmpty(r, col)))

\* the number of records of one kind at one row under one col_name
RecordsAt(m, error_type, r, col_name) ==
    Len(SelectSeq(m.errors, LAMBDA e : /\ e.error_type = error_type
                                       /\ e.row_index = r
                                       /\ e.col_name = col_name))

\* C12: a cell has one type_inconsistent record if the column is a numeric
\* column of the scanner, the cell is non-empty and parses neither as a
\* number nor as a number followed by a trailing % sign; otherwise none.
C12_TypeInconsistent ==
    \A n \in 1..Len(manifests) : \A r \in ScannedRows : \A col \in Range(scan_df.columns) :
        RecordsAt(manifests[n], "type_inconsistent", r, col) =
            IF /\ col \in Range(scanner.numeric_columns)
               /\ ~IsEmptyCell(r, col)
               /\ ~ParsesAsNumber(r, col)
            THEN 1 ELSE 0

\* the rows whose cell under col parses as a number
ParseableRows(col) == {r \in ScannedRows : ParsesAsNumber(r, col)}

\* C13: a column with fewer than 4 numerically parseable values has no
\* outlier record, whatever its values and however it was configured.
C13_NoOutlierBelowFour ==
    \A n \in 1..Len(manifests) : \A col \in Range(scan_df.columns) :
        Cardinality(ParseableRows(col)) < 4 =>
            \A r \in ScannedRows : RecordsAt(manifests[n], "outlier", r, col) = 0

\* the number a parseable cell stands for: the digits before the % sign
NumberOf(r, col) ==
    LET cs == Chars(TextOrEmpty(r, col))
    IN  IF IsPercentText(cs) THEN Decimal(SubSeq(cs, 1, Len(cs) - 1)) ELSE Decimal(cs)

\* the relation op between two numbers
Holds(a, op, b) ==
    CASE op = ">" -> a > b
      [] op = "<" -> a < b
      [] op = ">=" -> a >= b
      [] op = "<=" -> a <= b
      [] op = "==" -> a = b

\* C14: for a constraint with one of the five operators and both columns
\* in the table, a row has a constraint_violation record if and only if
\* both cells parse as numbers and the relation does not hold between
\* them; a row where a cell fails to parse has none.
C14_ConstraintViolation ==
    \A n \in 1..Len(manifests) : \A k \in 1..Len(scanner.constraints) :
        LET c == scanner.constraints[k]
        IN  (c.op \in ConstraintOps /\ {c.left, c.right} \subseteq Range(scan_df.columns)) =>
                \A r \in ScannedRows :
                    RecordsAt(manifests[n], "constraint_violation", r,
                              c.left \o " vs " \o c.right) =
                        IF /\ ParsesAsNumber(r, c.left)
                           /\ ParsesAsNumber(r, c.right)
                           /\ ~Holds(NumberOf(r, c.left), c.op, NumberOf(r, c.right))
                        THEN 1 ELSE 0

\* C15: a scanner built with an empty numeric-column list produces no
\* type_inconsistent record, and one built with an empty composite-key
\* list produces no duplicate record, whatever the table holds.
C15_OnlyConfiguredChecks ==
    \A n \in 1..Len(manifests) :
        /\ scanner_args.numeric_columns = <<>> => manifests[n].counts.type_errors = 0
        /\ scanner_args.composite_key_columns = <<>> => manifests[n].counts.duplicates = 0

\* C16: two scans of the same table, report and configuration return
\* identical manifests, the order of the defect records included.
C16_Deterministic ==
    \A n, k \in 1..Len(manifests) : manifests[n] = manifests[k]

\* the columns of the scanned table
Present == Range(scan_df.columns)

\* the scanner's configuration without its errors: without the numeric and
\* outlier columns the table lacks, the pattern items whose column is
\* lacking or whose expression is invalid, and the constraints naming a
\* lacking column
WithoutConfigErrors ==
    [composite_key_columns |-> scanner.composite_key_columns,
     numeric_columns |-> SelectSeq(scanner.numeric_columns, LAMBDA c : c \in Present),
     outlier_columns |-> SelectSeq(scanner.outlier_columns, LAMBDA c : c \in Present),
     pattern_columns |-> SelectSeq(scanner.pattern_columns,
                                   LAMBDA p : p.col \in Present /\ p.pattern = DigitsPattern),
     constraints |-> SelectSeq(scanner.constraints,
                               LAMBDA c : c.left \in Present /\ c.right \in Present)]

\* the col_name values the configuration errors would report under
ErrorNames ==
    {scanner.pattern_columns[k].col :
        k \in {j \in 1..Len(scanner.pattern_columns) :
                  scanner.pattern_columns[j].pattern # DigitsPattern}}

\* C17: a scan whose configuration has an invalid expression or names
\* columns the table lacks never raises; its manifest holds no record for
\* the failed check, and its records are those of the scan without the
\* erroneous items.
C17_ConfigErrorsSkipped ==
    /\ ~scan_raised
    /\ \A n \in 1..Len(manifests) :
        /\ \A k \in 1..Len(manifests[n].errors) :
              LET e == manifests[n].errors[k]
              IN  /\ e.error_type \in {"type_inconsistent", "outlier", "pattern_mismatch"}
                      => e.col_name \in Present
                  /\ e.error_type = "pattern_mismatch" => e.col_name \notin ErrorNames
                  /\ e.error_type = "constraint_violation"
                      => \E j \in 1..Len(WithoutConfigErrors.constraints) :
                            LET c == WithoutConfigErrors.constraints[j]
                            IN  e.col_name = c.left \o " vs " \o c.right
        /\ Range(manifests[n].errors) =
              Range(ScanErrors(WithoutConfigErrors, scan_df, ScanReport(scan_df),
                               SelectSeq(set_order, LAMBDA c : c \in Present)))

\* C18: every defect record of a manifest has 0 <= row_index < number of
\* rows of the scanned table; the scan of an empty table has no records.
C18_RowIndexInRange ==
    \A n \in 1..Len(manifests) :
        /\ \A k \in 1..Len(manifests[n].errors) :
              /\ 0 <= manifests[n].errors[k].row_index
              /\ manifests[n].errors[k].row_index < Len(scan_df.rows)
        /\ scan_df.rows = <<>> => manifests[n].errors = <<>>

\* a table of four rows whose last row carries a duplicate and an outlier
C18_Witness ==
    /\ manifests # <<>>
    /\ Len(scan_df.rows) = 4
    /\ 3 \in RowsOfKind(manifests[1], "duplicate")
    /\ 3 \in RowsOfKind(manifests[1], "outlier")
    /\ 0 \in RowsOfKind(manifests[1], "null_business")

\* the seven kinds in the order of the summary, each with the name of its
\* count and the wording of its part
Kinds ==
    <<[error_type |-> "null_structural", text |-> "structural nulls"],
      [error_type |-> "null_business", text |-> "business nulls"],
      [error_type |-> "type_inconsistent", text |-> "type inconsistencies"],
      [error_type |-> "duplicate", text |-> "duplicates"],
      [error_type |-> "outlier", text |-> "outliers"],
      [error_type |-> "pattern_mismatch", text |-> "pattern mismatches"],
      [error_type |-> "constraint_violation", text |-> "constraint violations"]>>

\* the seven per-kind counts of a manifest, in the order of Kinds
KindCounts(m) ==
    <<m.counts.structural_nulls, m.counts.business_nulls, m.counts.type_errors,
      m.counts.duplicates, m.counts.outliers, m.counts.pattern_mismatch,
      m.counts.constraint_violation>>

\* C19: each per-kind count is the number of records of its kind, total is
\* the length of errors and the sum of the seven counts, the summary is the
\* no-defects text exactly when total is 0, and otherwise lists the kinds
\* with a non-zero count, with their counts, in the fixed order.
C19_CountsAndSummary ==
    \A n \in 1..Len(manifests) :
        LET m == manifests[n]
            nonzero == SelectSeq([k \in 1..7 |-> k], LAMBDA k : KindCounts(m)[k] > 0)
        IN  /\ \A k \in 1..7 : KindCounts(m)[k] = Len(RecordsOfKind(m, Kinds[k].error_type))
            /\ m.counts.total = Len(m.errors)
            /\ m.counts.total = SumSeq(KindCounts(m))
            /\ (m.summary.text = "no defects found") <=> (m.counts.total = 0)
            /\ m.summary.text \in {"no defects found", "found"}
            /\ m.summary.parts =
                  [j \in 1..Len(nonzero) |->
                      [n |-> KindCounts(m)[nonzero[j]], text |-> Kinds[nonzero[j]].text]]

\* a manifest with structural and business nulls, type errors and
\* duplicates, and no outlier
C19_Witness ==
    /\ manifests # <<>>
    /\ manifests[1].counts.structural_nulls > 0
    /\ manifests[1].counts.business_nulls > 0
    /\ manifests[1].counts.type_errors > 0
    /\ manifests[1].counts.duplicates > 1
    /\ manifests[1].counts.outliers = 0
    /\ Len(manifests[1].summary.parts) = 4

\* --------------------------------------------------- the cache's claims
\* C20: under any interleaving of the two handlers, a cache entry goes to
\* at most one merge-and-scan request, and from the step that hands it
\* out on the cache no longer holds it, so that a later request with the
\* same key finds no entry.
C20_ClaimedAtMostOnce ==
    \A k \in BagToSet(claims) :
        /\ CopiesIn(k, claims) = 1
        /\ k \notin Range(upload_cache)

\* the entry of key 1 went to one request and a second request with key 1
\* found nothing, while an analyze-headers request was awaiting its files
\* and nothing had been evicted
C20_Witness ==
    /\ CopiesIn(1, claims) = 1
    /\ 1 \in misses
    /\ requests.merges = 2
    /\ requests.analyzing > 0
    /\ keys_issued < CACHE_MAX_ENTRIES

\* the cached key that was inserted first: keys are numbered as issued
Oldest(cache) == CHOOSE k \in Range(cache) : \A m \in Range(cache) : k <= m

\* C21: the cache never holds more than CACHE_MAX_ENTRIES entries, and an
\* analyze-headers request that inserts into a full cache removes exactly
\* one entry, the one inserted earliest among those cached, and adds its
\* own; an insertion into a cache that is not full removes nothing.
C21_BoundedOldestEvicted ==
    /\ [](Len(upload_cache) <= CACHE_MAX_ENTRIES)
    /\ [][keys_issued' # keys_issued =>
            /\ keys_issued' \notin Range(upload_cache)
            /\ Range(upload_cache') =
                  (IF Len(upload_cache) = CACHE_MAX_ENTRIES
                   THEN Range(upload_cache) \ {Oldest(upload_cache)}
                   ELSE Range(upload_cache)) \cup {keys_issued'}
            /\ Len(upload_cache') = Cardinality(Range(upload_cache'))]_vars

\* a full cache after an eviction that followed a claim: key 1 went to a
\* merge-and-scan request, so the entry evicted was that of key 2
C21_Witness ==
    /\ Len(upload_cache) = CACHE_MAX_ENTRIES
    /\ CopiesIn(1, claims) = 1
    /\ keys_issued = CACHE_MAX_ENTRIES + 2
    /\ 2 \notin Range(upload_cache)
    /\ 2 \notin BagToSet(claims)

\* ------------------------------------------------- the handlers' claims
\* the reference file of the request could not be read
ReferenceUnreadable == file_paths # <<>> /\ ~file_paths[1].readable

\* C22: a merge-and-scan handler does not call the scanner after a fatal
\* merge: when the report it got carries a top-level error, or the
\* reference file could not be read, its answer was made without a scan
\* and carries an empty merged table and a manifest without defects.
C22_NoScanAfterFatal ==
    (response.status = "200" /\ (ret.report.error # "None" \/ ReferenceUnreadable)) =>
        /\ ~response.scanned
        /\ response.merged = EmptyDF
        /\ response.errors = <<>>

\* ----------------------------------------- the merge engine's later claims
\* C23: during one merge_and_report call no step changes a table entry that
\* is already in the report's tables list: every entry keeps, field by
\* field (match_rate included), the value it was appended with, whether
\* the kept tables are stacked or joined on the key.
C23_EntriesImmutable ==
    [][pc # "idle" =>
        \A k \in 1..Len(report.tables) :
            /\ k <= Len(report'.tables)
            /\ report'.tables[k] = report.tables[k]]_vars

\* the columns the claim calls the base columns: the explicit override if
\* given, else the columns of file 0 (none when it cannot be read)
BaseColumns ==
    IF baseline_columns # NoneCols THEN baseline_columns
    ELSE IF file_paths[1].readable THEN file_paths[1].header
    ELSE <<>>

\* the columns found in the readable input files
FoundColumns ==
    UNION {Range(file_paths[k].header) : k \in {m \in 1..Len(file_paths) : file_paths[m].readable}}

\* s lists its labels in ascending string order, each once
Ascending(s) ==
    \A j, k \in 1..Len(s) : j < k => IndexOf(SortedColumns, s[j]) < IndexOf(SortedColumns, s[k])

\* C24: in an incremental merge the baseline is fixed when the first file
\* is about to be aligned and stays as it is to the end of the call: the
\* base columns in their order, then every other column found in a readable
\* input file, in sorted order; every entry of a readable file then has an
\* empty extra_columns list.
C24_IncrementalBaseline ==
    (template_incremental /\ pc # "idle" /\ file_paths # <<>>) =>
        /\ Len(cols_to_use) >= Len(BaseColumns)
        /\ SubSeq(cols_to_use, 1, Len(BaseColumns)) = BaseColumns
        /\ LET discovered == SubSeq(cols_to_use, Len(BaseColumns) + 1, Len(cols_to_use))
           IN  /\ Range(discovered) = FoundColumns \ Range(BaseColumns)
               /\ Ascending(discovered)
        /\ \A k \in 1..Len(report.tables) :
              report.tables[k].status # "read_error" => report.tables[k].extra_columns = <<>>

\* an incremental merge of three files has returned: file 0 has the column
\* A only, the later files brought K and B, and every file has its entry
C24_Witness ==
    /\ Returned
    /\ Len(file_paths) = 3
    /\ template_incremental
    /\ baseline_columns = NoneCols
    /\ file_paths[1].readable
    /\ file_paths[1].header = <<"A">>
    /\ cols_to_use = <<"A", "B", "K">>
    /\ Len(report.tables) = 3
    /\ report.tables[2].status = "ok"
    /\ report.tables[2].missing_columns # <<>>

\* C25: when a call on a non-empty file list returns a report without a
\* top-level error, the tables list has one entry per input file, in input
\* order: entry k is that of file k, with status read_error exactly when
\* the file could not be read; and merged_row_count is the number of rows
\* of the returned table.
C25_OneEntryPerFile ==
    (Returned /\ file_paths # <<>> /\ ret.report.error = "None") =>
        /\ Len(ret.report.tables) = Len(file_paths)
        /\ \A k \in 1..Len(ret.report.tables) :
              /\ ret.report.tables[k].file = k - 1
              /\ ret.report.tables[k].status \in {"ok", "read_error", "Fatal Mismatch"}
              /\ ret.report.tables[k].status = "read_error" <=> ~file_paths[k].readable
        /\ ret.report.merged_row_count = Len(ret.df.rows)

\* a call on three files returned some rows: file 0 was kept, file 1 could
\* not be read and file 2 had no column in common with the baseline
C25_Witness ==
    /\ Returned
    /\ Len(file_paths) = 3
    /\ ret.report.error = "None"
    /\ Len(ret.report.tables) = 3
    /\ ret.report.tables[1].status = "ok"
    /\ ret.report.tables[2].status = "read_error"
    /\ ret.report.tables[3].status = "Fatal Mismatch"
    /\ ret.report.merged_row_count = 2

\* input file f as the join sees it: read, key columns trimmed
Trimmed(f) == StripPrimaryKeyColumns(ReadTable(file_paths[f + 1], f), key_cols)

\* the columns input file f has and no readable earlier file had
NewColumnsOf(f) ==
    Range(file_paths[f + 1].header) \
        UNION {Range(file_paths[e + 1].header) : e \in {d \in 0..(f - 1) : file_paths[d + 1].readable}}

\* the first row of input file f with the key tuple k (0 when there is none)
FirstRowWithKey(f, k) ==
    LET hits == {n \in 1..Len(Trimmed(f).rows) : KeyOf(Trimmed(f), n, key_cols) = k}
    IN  IF hits = {} THEN 0 ELSE CHOOSE n \in hits : \A m \in hits : n <= m

\* every row of file 0 whose key occurs in input file f holds, under each
\* column that f is the first file to have, the cell of the first row of f
\* with that key
JoinedFrom(f) ==
    \A c \in NewColumnsOf(f) :
    \A n \in 1..Len(ret.df.rows) :
        LET hit == FirstRowWithKey(f, KeyOf(Trimmed(0), n, key_cols))
        IN  hit # 0 => KeyOf(ret.df, n, <<c>>) = KeyOf(Trimmed(f), hit, <<c>>)

\* an incremental key join has returned: file 0 is readable and has the key
\* columns
IncrementalJoinReturned ==
    /\ Returned
    /\ template_incremental
    /\ key_cols # <<>>
    /\ ret.report.error = "None"
    /\ file_paths # <<>>
    /\ file_paths[1].readable
    /\ Range(key_cols) \subseteq Range(file_paths[1].header)

\* the kept files after file 0 that have the key columns
JoinedFiles ==
    {f \in Range(merged_src) \ {0} : Range(key_cols) \subseteq Range(file_paths[f + 1].header)}

\* C26: in an incremental key join every kept file after file 0 is
\* deduplicated by key (first occurrence wins) and left-joined onto the
\* running result: each column the file is the first to have holds, in the
\* rows of file 0 whose key occurs in the file, the value of the file's
\* first row with that key.  This holds for every joined file.
C26_EveryJoinBringsColumns ==
    IncrementalJoinReturned => \A f \in JoinedFiles : JoinedFrom(f)

\* a call with primary key columns and without the incremental flag has
\* returned a report without a top-level error
PlainJoinReturned ==
    /\ Returned
    /\ ~template_incremental
    /\ key_cols # <<>>
    /\ file_paths # <<>>
    /\ ret.report.error = "None"

\* C27: a key-joined merge without the incremental flag returns file 0
\* projected on the baseline columns: the rows of file 0 in their order
\* with their cell values (key columns trimmed), and no row or cell value
\* of a later file.
C27_OnlyFileZeroRows ==
    PlainJoinReturned =>
        /\ \A n \in 1..Len(ret.df.rows) :
              /\ ret.df.rows[n].src = 0
              /\ \A j \in 1..Len(ret.df.rows[n].cells) : ret.df.rows[n].cells[j].f \in {0, 1}
        /\ file_paths[1].readable =>
              ret.df = Reindex(Trimmed(0), ret.report.reference_columns)

MainAnswers == pc # pc' /\ pc' \in {"answered", "scanned"} /\ request'.handler = "main"

\* C29: the process-wide fingerprint changes only in the step in which a
\* merge-and-scan request of main.py completes its merge and its scan, and
\* becomes the fingerprint that request answers with; a request that ends
\* with a fatal merge (a top-level error, or an unreadable reference file)
\* or is rejected for lack of files leaves it as it was and answers with
\* no fingerprint; check-status after a successful request returns the
\* fingerprint of that request's answer.
C29_FingerprintOnSuccessOnly ==
    /\ [][last_merge_fingerprint' # last_merge_fingerprint =>
            /\ MainAnswers
            /\ response'.scanned
            /\ last_merge_fingerprint' = response'.fingerprint]_vars
    /\ [][(MainAnswers /\ (response'.status = "400" \/ ret'.report.error # "None"
                                                     \/ ReferenceUnreadable')) =>
            /\ last_merge_fingerprint' = last_merge_fingerprint
            /\ response'.fingerprint \in {NoFingerprint, FingerprintAbsent}]_vars
    /\ []((pc = "scanned" /\ request.handler = "main" /\ polled # NotPolled) =>
            polled = response.fingerprint)

\* ------------------------------------------- the scanner's last claim
\* the constraint_violation records the constraint pass gives for the
\* constraints cs on the scanned table
ViolationsOf(cs) == ConstraintViolations(scan_df, cs)

\* the records of one kind under one col_name
RecordsUnder(m, error_type, col_name) ==
    SelectSeq(m.errors, LAMBDA e : e.error_type = error_type /\ e.col_name = col_name)

\* C30: a constraint whose operator is none of ">", "<", ">=", "<=", "=="
\* gives no constraint_violation record for any row, and a constraint
\* without an operator gives the records the same constraint gives with
\* the operator ">".
C30_UnknownAndMissingOperator ==
    \A n \in 1..Len(manifests) : \A k \in 1..Len(scanner.constraints) :
        LET c == scanner.constraints[k]
            records == RecordsUnder(manifests[n], "constraint_violation",
                                    c.left \o " vs " \o c.right)
        IN  /\ c.op \notin ConstraintOps \cup {NoOp} => records = <<>>
            /\ c.op = NoOp => records = ViolationsOf(<<[c EXCEPT !.op = ">"]>>)

\* a table with a row that violates "jine > fenshu", a row whose cells do
\* not parse and a row holding the float nan was scanned with the
\* constraint "fenshu = jine" and with the constraint on jine and fenshu
\* that has no operator, which gave a record
C30_Witness ==
    /\ manifests # <<>>
    /\ scanner.constraints = <<[left |-> "fenshu", op |-> "=", right |-> "jine"],
                               [left |-> "jine", op |-> NoOp, right |-> "fenshu"]>>
    /\ \E r \in ScannedRows : TextOrEmpty(r, "fenshu") = "9" /\ TextOrEmpty(r, "jine") = "9"
    /\ \E r \in ScannedRows : TextOrEmpty(r, "fenshu") = "abc"
    /\ \E r \in ScannedRows : TextOrEmpty(r, "fenshu") = "nan"
    /\ RecordsUnder(manifests[1], "constraint_violation", "jine vs fenshu") # <<>>

====
